---------------------------- MODULE Spec2Model ----------------------------
(***************************************************************************)
(* torchtnt runner callbacks: BaseCSVWriter (base_csv_writer.py) and       *)
(* TQDMProgressBar (tqdm_progress_bar.py), modelled as state machines      *)
(* driven by the hooks the training loop calls.                            *)
(***************************************************************************)
EXTENDS Integers, Sequences, FiniteSets, TLC

(***************************************************************************)
(* Bounds of the model.                                                    *)
(***************************************************************************)
\* hooks of the CSV writer recorded per behaviour
MaxEvents == 2
\* largest refresh rate
MaxRefresh == 3
\* steps the loop completes, and times step_end moves a bar, all phases together
MaxSteps == 2
\* bars created, all phases together
MaxEpochs == 2
\* largest length of a sized dataloader
MaxLen == 3
\* largest max_steps and max_steps_per_epoch
MaxCap == 3
\* largest rank besides the coordinator
MaxRank == 1

(***************************************************************************)
(* Python values.                                                          *)
(***************************************************************************)
\* the exception a hook call ended with ("None": it returned)
Excs == {"None", "ValueError", "AssertionError", "TypeError"}

\* csv.writer defaults (the dialect "excel"): line terminator and quote char
LineTerminator == "\r\n"

QuoteChar == "\""

Delimiters == {"\t", ","}

HeaderRows == {<<"a", "b">>, <<"b">>}

\* an item of the list get_batch_output_rows returns: a str or a list of str
StrItem(s) == [isList |-> FALSE, s |-> s, l |-> <<>>]

ListItem(r) == [isList |-> TRUE, s |-> "", l |-> r]

\* Union[List[str], List[List[str]]]: a flat row (List[str]) ...; the cells
\* are "a", "b" and "", none of which holds a delimiter, a quote or a line
\* break, so none is quoted on its own account
FlatOutputs ==
  {<<>>, <<StrItem("")>>, <<StrItem("a"), StrItem("b")>>}

\* ... or a list of rows (List[List[str]])
NestedOutputs ==
  {<<ListItem(<<>>)>>, <<ListItem(<<"a", "b">>)>>,
   <<ListItem(<<"a">>), ListItem(<<"b", "a">>)>>}

BatchOutputs == FlatOutputs \cup NestedOutputs

\* an empty result and one row: the results of the run that has both callbacks
FewOutputs == {<<>>, <<StrItem("a"), StrItem("b")>>}

EntryPoints == {"FIT", "TRAIN", "EVALUATE", "PREDICT"}

VARIABLES
  rank,        \* get_global_rank() of this process
  header_row,  \* BaseCSVWriter.header_row
  delimiter,   \* BaseCSVWriter.delimiter
  file,        \* BaseCSVWriter._file: [writes, closed, flushes, closes]
  call,        \* the last hook called, or step of the loop: [hook, phase, exc, was_closed]
  log,         \* the writer's start and step hooks that returned, in call order
  exits,       \* exit hooks called so far (on_predict_end, on_exception in PREDICT), counted to 2
  refresh_rate,         \* TQDMProgressBar._refresh_rate
  bars,                 \* TQDMProgressBar._{train,eval,predict}_progress_bar
  num_steps_completed,  \* state.{train,eval,predict}_state.progress.num_steps_completed
  protocol,             \* whether the hooks came in the loop's order so far, the open epochs, the bars created and moved
  dropped,              \* phases whose slot lost a bar that was not closed
  est,                  \* a call of _estimated_steps_in_epoch: its arguments and result
  loop                  \* the loop that drives the reporter: [count_first, start, pending]

csv_vars == <<header_row, delimiter, file, log, exits>>

bar_vars == <<refresh_rate, bars, num_steps_completed, protocol, dropped>>

vars == <<rank, call, csv_vars, bar_vars, est, loop>>

(***************************************************************************)
(* TextIO (the object fs.open returns) and csv.writer.                     *)
(***************************************************************************)
Ok(f) == [f |-> f, exc |-> "None"]

Raised(f, e) == [f |-> f, exc |-> e]

\* TextIO.write: ValueError on a closed file
FileWrite(f, s) ==
  IF f.closed THEN Raised(f, "ValueError")
  ELSE Ok([f EXCEPT !.writes = Append(@, s)])

\* TextIO.flush: ValueError on a closed file
FileFlush(f) ==
  IF f.closed THEN Raised(f, "ValueError")
  ELSE Ok([f EXCEPT !.flushes = @ + 1])

\* TextIO.close: releases the handle; a no-op on a closed file
FileClose(f) ==
  IF f.closed THEN Ok(f)
  ELSE Ok([f EXCEPT !.closed = TRUE, !.closes = @ + 1])

RECURSIVE JoinCells(_, _)
JoinCells(cells, d) ==
  IF cells = <<>> THEN ""
  ELSE IF Len(cells) = 1 THEN Head(cells)
  ELSE Head(cells) \o d \o JoinCells(Tail(cells), d)

\* csv.writer's record: the cells joined by the delimiter; a row of one empty
\* cell is written quoted, so that it is not read back as an empty row
FormatRow(cells, d) ==
  IF cells = <<"">> THEN QuoteChar \o QuoteChar \o LineTerminator
  ELSE JoinCells(cells, d) \o LineTerminator

\* self._writer.writerow(row)
writerow(f, cells, d) == FileWrite(f, FormatRow(cells, d))

\* the cells of a flat list of str
StrCells(items) == [i \in 1..Len(items) |-> items[i].s]

\* for row in batch_output_rows: self._writer.writerow(row); the first write
\* that raises ends the loop
RECURSIVE WriteEach(_, _, _)
WriteEach(f, items, d) ==
  IF items = <<>> THEN Ok(f)
  ELSE LET r == writerow(f, Head(items).l, d)
       IN  IF r.exc # "None" THEN r ELSE WriteEach(r.f, Tail(items), d)

(***************************************************************************)
(* BaseCSVWriter                                                           *)
(***************************************************************************)
\* __init__: the file is opened (append mode) and nothing is written yet
NewFile == [writes |-> <<>>, closed |-> FALSE, flushes |-> 0, closes |-> 0]

IsZeroRank(r) == r = 0

\* a header written on each call and once more
WriteHeader_Twice(f, r, hdr, d) ==
  IF IsZeroRank(r) THEN writerow(writerow(f, hdr, d).f, hdr, d) ELSE Ok(f)

\* on_predict_start's body
WriteHeader(f, r, hdr, d) ==
  IF IsZeroRank(r) THEN writerow(f, hdr, d) ELSE Ok(f)

\* a result written without the test for an empty one: an empty result is
\* written as a row of no cells
WriteBatch_NoEmptyCheck(f, batch_output_rows, d) ==
  IF Len(batch_output_rows) > 0 /\ batch_output_rows[1].isList
  THEN WriteEach(f, batch_output_rows, d)
  ELSE writerow(f, StrCells(batch_output_rows), d)

\* data rows gated by rank as the header is
WriteBatch_RankZeroOnly(f, batch_output_rows, d) ==
  IF ~IsZeroRank(rank) THEN Ok(f)
  ELSE IF Len(batch_output_rows) > 0
  THEN IF batch_output_rows[1].isList
       THEN WriteEach(f, batch_output_rows, d)
       ELSE writerow(f, StrCells(batch_output_rows), d)
  ELSE Ok(f)

\* a list of rows written as if it were one row
WriteBatch_AlwaysOneRow(f, batch_output_rows, d) ==
  IF Len(batch_output_rows) > 0
  THEN writerow(f, StrCells(batch_output_rows), d)
  ELSE Ok(f)

\* on_predict_step_end's body after the extraction
WriteBatch(f, batch_output_rows, d) ==
  IF Len(batch_output_rows) > 0
  THEN IF batch_output_rows[1].isList
       THEN WriteEach(f, batch_output_rows, d)
       ELSE writerow(f, StrCells(batch_output_rows), d)
  ELSE Ok(f)

\* a release that flushes and leaves the handle open
FlushAndClose_NoClose(f) == FileFlush(f)

\* self._file.flush(); self._file.close()
FlushAndClose(f) ==
  LET r == FileFlush(f)
  IN  IF r.exc # "None" THEN r ELSE FileClose(r.f)

\* a release on an exception of any entry point
ReleaseOnException_AnyEntryPoint(f, entry_point) == FlushAndClose(f)

\* on_exception's body
ReleaseOnException(f, entry_point) ==
  IF entry_point = "PREDICT" THEN FlushAndClose(f) ELSE Ok(f)

Called(hook, r) ==
  [hook |-> hook, phase |-> "predict", exc |-> r.exc, was_closed |-> file.closed]

CSV_on_predict_start ==
  /\ Len(log) < MaxEvents
  /\ LET r == WriteHeader(file, rank, header_row, delimiter)
     IN  /\ file' = r.f
         /\ call' = Called("on_predict_start", r)
         /\ log' = IF r.exc = "None"
                   THEN Append(log, [hook |-> "start", out |-> <<>>])
                   ELSE log
  /\ UNCHANGED <<rank, header_row, delimiter, exits, bar_vars, est, loop>>

\* outputs: the results get_batch_output_rows may give
CSV_on_predict_step_end(outputs) ==
  /\ Len(log) < MaxEvents
  /\ \E has_predict_state \in BOOLEAN, batch_output_rows \in outputs :
       LET r == IF ~has_predict_state THEN Raised(file, "AssertionError")
                ELSE WriteBatch(file, batch_output_rows, delimiter)
       IN  /\ file' = r.f
           /\ call' = Called("on_predict_step_end", r)
           /\ log' = IF r.exc = "None"
                     THEN Append(log, [hook |-> "step", out |-> batch_output_rows])
                     ELSE log
  /\ UNCHANGED <<rank, header_row, delimiter, exits, bar_vars, est, loop>>

Counted(n) == IF n < 2 THEN n + 1 ELSE n

CSV_on_predict_end ==
  /\ LET r == FlushAndClose(file)
     IN  /\ file' = r.f
         /\ call' = Called("on_predict_end", r)
  /\ exits' = Counted(exits)
  /\ UNCHANGED <<rank, header_row, delimiter, log, bar_vars, est, loop>>

CSV_on_exception ==
  /\ \E entry_point \in EntryPoints :
       LET r == ReleaseOnException(file, entry_point)
       IN  /\ file' = r.f
           /\ call' = Called("on_exception:" \o entry_point, r)
           /\ exits' = IF entry_point = "PREDICT" THEN Counted(exits) ELSE exits
  /\ UNCHANGED <<rank, header_row, delimiter, log, bar_vars, est, loop>>

\* BaseCSVWriter(header_row, dir_path, delimiter)
NewWriter ==
  /\ header_row \in HeaderRows
  /\ delimiter \in Delimiters
  /\ file = NewFile
  /\ log = <<>>
  /\ exits = 0

CSVHooks(outputs) ==
  \/ CSV_on_predict_start
  \/ CSV_on_predict_step_end(outputs)
  \/ CSV_on_predict_end
  \/ CSV_on_exception

NextCSV == CSVHooks(BatchOutputs)

(***************************************************************************)
(* Python values of the progress reporter.                                 *)
(***************************************************************************)
Phases == {"train", "eval", "predict"}

\* Optional[int]
NoneInt == [some |-> FALSE, v |-> 0]

SomeInt(n) == [some |-> TRUE, v |-> n]

\* the truth value of an Optional[int]: None and 0 are false
Truthy(o) == o.some /\ o.v # 0

\* a float that holds an int or float("inf")
Inf == [inf |-> TRUE, v |-> 0]

Fin(n) == [inf |-> FALSE, v |-> n]

\* min(total, n)
MinOf(total, n) == IF total.inf \/ n < total.v THEN Fin(n) ELSE total

\* a dataloader: Sized with a length, or not Sized
Sized(n) == [sized |-> TRUE, len |-> n]

Unsized == [sized |-> FALSE, len |-> 0]

Dataloaders == {Unsized} \cup {Sized(n) : n \in 0..MaxLen}

Caps == {NoneInt} \cup {SomeInt(n) : n \in 0..MaxCap}

\* the dataloaders and caps of the phase states the reporter is run with
LoopDataloaders == {Unsized, Sized(0), Sized(MaxLen)}

LoopCaps == {NoneInt, SomeInt(MaxCap)}

\* those of the run that has both callbacks
FewDataloaders == {Unsized, Sized(MaxLen)}

FewCaps == {NoneInt}

(***************************************************************************)
(* tqdm                                                                    *)
(***************************************************************************)
\* an empty slot (None)
NoBar == [exists |-> FALSE, total |-> NoneInt, n |-> 0, disable |-> FALSE, desc |-> ""]

\* tqdm(desc=desc, total=total): an infinite total is kept as None
tqdm(desc, total) ==
  [exists |-> TRUE,
   total |-> IF total.inf THEN NoneInt ELSE SomeInt(total.v),
   n |-> 0, disable |-> FALSE, desc |-> desc]

\* bool(bar) as the hooks' `if self._x_progress_bar and ...` evaluates it: None is
\* false; tqdm.__bool__ is total > 0, and raises TypeError when the bar has
\* neither a total nor an iterable
Truth(bar) ==
  IF ~bar.exists THEN "False"
  ELSE IF bar.total.some THEN (IF bar.total.v > 0 THEN "True" ELSE "False")
  ELSE "TypeError"

\* tqdm.update(n): nothing on a closed (disabled) bar
BarUpdate(bar, n) == IF bar.disable THEN bar ELSE [bar EXCEPT !.n = @ + n]

\* tqdm.close()
BarClose(bar) == [bar EXCEPT !.disable = TRUE]

(***************************************************************************)
(* tqdm_progress_bar.py: the module's functions                            *)
(***************************************************************************)
_estimated_steps_in_epoch(dataloader, nsc, max_steps, max_steps_per_epoch) ==
  LET total == IF dataloader.sized THEN Fin(dataloader.len) ELSE Inf
  IN  IF Truthy(max_steps_per_epoch) /\ Truthy(max_steps)
      THEN MinOf(MinOf(total, max_steps_per_epoch.v), max_steps.v - nsc)
      ELSE IF Truthy(max_steps) THEN MinOf(total, max_steps.v - nsc)
      ELSE IF Truthy(max_steps_per_epoch) THEN MinOf(total, max_steps_per_epoch.v)
      ELSE total

\* a bar created whatever the rank
_create_progress_bar_AnyRank(r, dataloader, desc, nsc, max_steps, max_steps_per_epoch) ==
  tqdm(desc, _estimated_steps_in_epoch(dataloader, nsc, max_steps, max_steps_per_epoch))

_create_progress_bar(r, dataloader, desc, nsc, max_steps, max_steps_per_epoch) ==
  IF ~(r = 0) THEN NoBar
  ELSE tqdm(desc, _estimated_steps_in_epoch(dataloader, nsc, max_steps, max_steps_per_epoch))

_update_progress_bar(r, progress_bar, nsc, rate) ==
  IF ~(r = 0) THEN progress_bar
  ELSE IF (nsc + 1) % rate = 0 THEN BarUpdate(progress_bar, rate)
  ELSE progress_bar

_close_progress_bar(r, progress_bar, nsc, rate) ==
  IF ~(r = 0) THEN progress_bar
  ELSE BarClose(BarUpdate(progress_bar, nsc % rate))

(***************************************************************************)
(* TQDMProgressBar                                                         *)
(***************************************************************************)
Desc(p) ==
  IF p = "train" THEN "Train Epoch" ELSE IF p = "eval" THEN "Eval Epoch" ELSE "Predict Epoch"

Event(hook, p, exc) == [hook |-> hook, phase |-> p, exc |-> exc, was_closed |-> FALSE]

\* the loop's order per phase: epoch_start, step_end*, epoch_end, each with the
\* phase's state present
InOrder(hook, p, has_state) ==
  /\ protocol.ok
  /\ has_state
  /\ protocol.open[p] = (hook # "epoch_start")

\* made: whether the hook made a bar (epoch_start) or moved one (step_end)
Follow(hook, p, has_state, made) ==
  LET created == protocol.created + (IF hook = "epoch_start" /\ made THEN 1 ELSE 0)
      advanced == protocol.advanced + (IF hook = "step_end" /\ made THEN 1 ELSE 0)
  IN  IF InOrder(hook, p, has_state)
      THEN [protocol EXCEPT !.open[p] = (hook # "epoch_end"),
                            !.created = created, !.advanced = advanced]
      ELSE [ok |-> FALSE, open |-> [q \in Phases |-> FALSE],
            created |-> created, advanced |-> advanced]

StepsCompleted ==
  num_steps_completed["train"] + num_steps_completed["eval"] + num_steps_completed["predict"]

\* on_{train,eval,predict}_epoch_start; loaders and caps: the dataloaders and
\* step caps the phase states may hold
on_epoch_start(p, loaders, caps) ==
  /\ protocol.created < MaxEpochs
  /\ \E has_state \in BOOLEAN, dataloader \in loaders,
        max_steps \in caps, max_steps_per_epoch \in caps :
       /\ bars' = IF has_state
                  THEN [bars EXCEPT ![p] =
                          _create_progress_bar(rank, dataloader, Desc(p),
                            num_steps_completed[p], max_steps, max_steps_per_epoch)]
                  ELSE bars
       /\ dropped' = IF has_state /\ bars[p].exists /\ ~bars[p].disable
                     THEN [dropped EXCEPT ![p] = TRUE]
                     ELSE dropped
       /\ call' = Event("epoch_start", p, "None")
       /\ protocol' = Follow("epoch_start", p, has_state, bars'[p].exists /\ has_state)
  /\ UNCHANGED <<rank, csv_vars, refresh_rate, num_steps_completed, est>>

\* on_{train,eval,predict}_step_end
on_step_end(p) ==
  /\ protocol.advanced < MaxSteps
  /\ \E has_state \in BOOLEAN :
       LET t == Truth(bars[p])
       IN  /\ bars' = IF t = "True" /\ has_state
                      THEN [bars EXCEPT ![p] =
                              _update_progress_bar(rank, bars[p], num_steps_completed[p], refresh_rate)]
                      ELSE bars
           /\ call' = Event("step_end", p, IF t = "TypeError" THEN t ELSE "None")
           /\ protocol' = Follow("step_end", p, has_state, bars' # bars)
  /\ UNCHANGED <<rank, csv_vars, refresh_rate, num_steps_completed, dropped, est>>

\* an epoch_end that closes the training bar whatever its phase
on_epoch_end_TrainSlot(p) ==
  /\ \E has_state \in BOOLEAN :
       LET t == Truth(bars["train"])
       IN  /\ bars' = IF t = "True" /\ has_state
                      THEN [bars EXCEPT !["train"] =
                              _close_progress_bar(rank, bars["train"], num_steps_completed[p], refresh_rate)]
                      ELSE bars
           /\ call' = Event("epoch_end", p, IF t = "TypeError" THEN t ELSE "None")
           /\ protocol' = Follow("epoch_end", p, has_state, FALSE)
  /\ UNCHANGED <<rank, csv_vars, refresh_rate, num_steps_completed, dropped, est>>

\* on_{train,eval,predict}_epoch_end
on_epoch_end(p) ==
  /\ \E has_state \in BOOLEAN :
       LET t == Truth(bars[p])
       IN  /\ bars' = IF t = "True" /\ has_state
                      THEN [bars EXCEPT ![p] =
                              _close_progress_bar(rank, bars[p], num_steps_completed[p], refresh_rate)]
                      ELSE bars
           /\ call' = Event("epoch_end", p, IF t = "TypeError" THEN t ELSE "None")
           /\ protocol' = Follow("epoch_end", p, has_state, FALSE)
  /\ UNCHANGED <<rank, csv_vars, refresh_rate, num_steps_completed, dropped, est>>

\* the loop completes a step of phase p
loop_step(p) ==
  /\ StepsCompleted < MaxSteps
  /\ num_steps_completed' = [num_steps_completed EXCEPT ![p] = @ + 1]
  /\ call' = Event("loop_step", p, "None")
  /\ UNCHANGED <<rank, csv_vars, refresh_rate, bars, protocol, dropped, est>>

\* TQDMProgressBar(refresh_rate)
NewReporter ==
  /\ refresh_rate \in 1..MaxRefresh
  /\ bars = [p \in Phases |-> NoBar]
  /\ num_steps_completed = [p \in Phases |-> 0]
  /\ protocol = [ok |-> TRUE, open |-> [p \in Phases |-> FALSE],
                 created |-> 0, advanced |-> 0]
  /\ dropped = [p \in Phases |-> FALSE]

\* the loop before its first epoch
NewLoop ==
  loop = [count_first |-> FALSE, start |-> [p \in Phases |-> 0],
          pending |-> [p \in Phases |-> FALSE]]

BarHooks(loaders, caps) ==
  \/ \E p \in Phases : on_epoch_start(p, loaders, caps) /\ UNCHANGED loop
  \/ \E p \in Phases : on_step_end(p) /\ UNCHANGED loop
  \/ \E p \in Phases : on_epoch_end(p) /\ UNCHANGED loop
  \/ \E p \in Phases : loop_step(p) /\ UNCHANGED loop

NextBar == BarHooks(LoopDataloaders, LoopCaps)

(***************************************************************************)
(* The loop that calls the reporter: per phase epoch_start, the epoch's    *)
(* steps, epoch_end, the state of the phase present throughout.  A step    *)
(* counts itself in num_steps_completed and calls step_end; whether the    *)
(* count comes before the call or after it is fixed for the run            *)
(* (loop.count_first).  An evaluation epoch may run inside a training      *)
(* epoch, between two of its steps.  A hook that raises ends the run.      *)
(***************************************************************************)
\* the dataloaders and caps of the phase states the loop runs with
RunDataloaders == {Unsized, Sized(1), Sized(MaxLen)}

RunCaps == {NoneInt, SomeInt(MaxCap)}

\* the run goes on: no hook has raised
Running == call.exc = "None"

\* no step of any phase is half done
BetweenSteps == \A q \in Phases : ~loop.pending[q]

\* steps executed in the epoch of phase p so far
StepsInEpoch(p) == num_steps_completed[p] - loop.start[p]

\* the epoch has steps left: an epoch runs no more steps than its bar's total
StepsLeft(p) == bars[p].total.some => StepsInEpoch(p) < bars[p].total.v

run_epoch_start(p) ==
  /\ Running
  /\ BetweenSteps
  /\ ~protocol.open[p]
  /\ on_epoch_start(p, RunDataloaders, RunCaps)
  /\ protocol'.ok
  /\ loop' = [loop EXCEPT !.start[p] = num_steps_completed[p]]

\* the step counts itself: the first half of a step when loop.count_first,
\* else the second
run_count(p) ==
  /\ Running
  /\ protocol.ok
  /\ protocol.open[p]
  /\ IF loop.count_first THEN BetweenSteps /\ StepsLeft(p) ELSE loop.pending[p]
  /\ loop_step(p)
  /\ loop' = [loop EXCEPT !.pending[p] = ~@]

\* the step calls step_end: the second half of a step when loop.count_first,
\* else the first
run_step_end(p) ==
  /\ Running
  /\ protocol.ok
  /\ protocol.open[p]
  /\ IF loop.count_first THEN loop.pending[p] ELSE BetweenSteps /\ StepsLeft(p)
  /\ on_step_end(p)
  /\ protocol'.ok
  /\ loop' = [loop EXCEPT !.pending[p] = ~@]

run_epoch_end(p) ==
  /\ Running
  /\ BetweenSteps
  /\ protocol.ok
  /\ protocol.open[p]
  /\ on_epoch_end(p)
  /\ protocol'.ok
  /\ UNCHANGED loop

NextLoop ==
  \/ \E p \in Phases : run_epoch_start(p)
  \/ \E p \in Phases : run_count(p)
  \/ \E p \in Phases : run_step_end(p)
  \/ \E p \in Phases : run_epoch_end(p)

(***************************************************************************)
(* _estimated_steps_in_epoch on its own                                    *)
(***************************************************************************)
NoEstimate ==
  est = [dataloader |-> Unsized, nsc |-> 0, max_steps |-> NoneInt,
         max_steps_per_epoch |-> NoneInt, total |-> Inf, done |-> FALSE]

Estimate ==
  /\ \E dataloader \in Dataloaders, nsc \in 0..MaxSteps, max_steps \in Caps,
        max_steps_per_epoch \in Caps :
       est' = [dataloader |-> dataloader, nsc |-> nsc, max_steps |-> max_steps,
               max_steps_per_epoch |-> max_steps_per_epoch,
               total |-> _estimated_steps_in_epoch(dataloader, nsc, max_steps, max_steps_per_epoch),
               done |-> TRUE]
  /\ call' = Event("_estimated_steps_in_epoch", "train", "None")
  /\ UNCHANGED <<rank, csv_vars, bar_vars, loop>>

(***************************************************************************)
(* Specifications                                                          *)
(***************************************************************************)
\* the CSV writer under every order of its hooks
InitCSV ==
  /\ call = Event("__init__", "predict", "None")
  /\ rank \in 0..MaxRank
  /\ NewWriter
  /\ NewReporter
  /\ refresh_rate = 1
  /\ NoEstimate
  /\ NewLoop

SpecCSV == InitCSV /\ [][NextCSV]_vars

\* the progress reporter under every order of its hooks
InitBar ==
  /\ call = Event("__init__", "predict", "None")
  /\ rank \in 0..MaxRank
  /\ NewWriter
  /\ header_row = <<"a", "b">>
  /\ delimiter = "\t"
  /\ NewReporter
  /\ NoEstimate
  /\ NewLoop

SpecBar == InitBar /\ [][NextBar]_vars

\* both callbacks on a process that is not the coordinator
InitOther ==
  /\ call = Event("__init__", "predict", "None")
  /\ rank \in 1..MaxRank
  /\ NewWriter
  /\ header_row = <<"a", "b">>
  /\ delimiter = "\t"
  /\ NewReporter
  /\ refresh_rate = 1
  /\ NoEstimate
  /\ NewLoop

NextOther == CSVHooks(FewOutputs) \/ BarHooks(FewDataloaders, FewCaps)

SpecOther == InitOther /\ [][NextOther]_vars

\* the progress reporter on the coordinator under every order of its hooks,
\* each phase with a dataloader that is Sized or not and no caps
InitPhases ==
  /\ call = Event("__init__", "predict", "None")
  /\ rank = 0
  /\ NewWriter
  /\ header_row = <<"a", "b">>
  /\ delimiter = "\t"
  /\ NewReporter
  /\ NoEstimate
  /\ NewLoop

NextPhases == BarHooks(FewDataloaders, FewCaps)

SpecPhases == InitPhases /\ [][NextPhases]_vars

\* the estimate for every argument
InitEst ==
  /\ call = Event("__init__", "predict", "None")
  /\ rank = 0
  /\ NewWriter
  /\ header_row = <<"a", "b">>
  /\ delimiter = "\t"
  /\ NewReporter
  /\ refresh_rate = 1
  /\ NoEstimate
  /\ NewLoop

SpecEst == InitEst /\ [][Estimate]_vars

\* the reporter driven by the loop on the coordinator
InitLoop ==
  /\ call = Event("__init__", "predict", "None")
  /\ rank = 0
  /\ NewWriter
  /\ header_row = <<"a", "b">>
  /\ delimiter = "\t"
  /\ NewReporter
  /\ NoEstimate
  /\ loop \in [count_first : BOOLEAN, start : {[p \in Phases |-> 0]},
               pending : {[p \in Phases |-> FALSE]}]

SpecLoop == InitLoop /\ [][NextLoop]_vars

(***************************************************************************)
(* Properties of the CSV writer                                            *)
(***************************************************************************)
\* C1: whatever hooks are called, the file is flushed and closed at most once,
\* and exactly once as soon as on_predict_end or on_exception (entry point
\* PREDICT) has been called; a second exit hook releases nothing more.
C1_ReleasedOnce ==
  /\ file.closes <= 1
  /\ file.flushes <= 1
  /\ exits = 0 => ~file.closed /\ file.closes = 0 /\ file.flushes = 0
  /\ exits >= 1 => file.closed /\ file.closes = 1 /\ file.flushes = 1

\* both exit paths have fired, on_exception after on_predict_end
C1_Witness ==
  /\ exits = 2
  /\ call.hook = "on_exception:PREDICT"
  /\ file.closes = 1

\* C2: a second on_predict_end, on a file the first one closed, does not raise
\* and flushes and closes nothing more.
C2_SecondEndIsNoOp ==
  (call.hook = "on_predict_end" /\ call.was_closed) =>
    /\ call.exc = "None"
    /\ file.flushes = 1
    /\ file.closes = 1

\* C3: on_exception with entry point PREDICT flushes and closes an open file,
\* and on a file already closed it does nothing and does not raise.
C3_ExceptionReleaseIdempotent ==
  call.hook = "on_exception:PREDICT" =>
    /\ call.exc = "None"
    /\ file.closed
    /\ file.flushes = 1
    /\ file.closes = 1

\* the rows a step's extraction result stands for: a flat list of strings is
\* one row, a list of rows is its rows, an empty result is no row
StepRows(out) ==
  IF out = <<>> THEN <<>>
  ELSE IF out \in NestedOutputs THEN [i \in 1..Len(out) |-> out[i].l]
  ELSE <<[i \in 1..Len(out) |-> out[i].s]>>

Lines(rows) == [i \in 1..Len(rows) |-> FormatRow(rows[i], delimiter)]

\* what the logged hooks from position i on should have written
RECURSIVE Written(_)
Written(i) ==
  IF i > Len(log) THEN <<>>
  ELSE (IF log[i].hook = "start"
        THEN (IF rank = 0 THEN Lines(<<header_row>>) ELSE <<>>)
        ELSE Lines(StepRows(log[i].out))) \o Written(i + 1)

RECURSIVE DataRows(_)
DataRows(i) ==
  IF i > Len(log) THEN <<>>
  ELSE (IF log[i].hook = "step" THEN StepRows(log[i].out) ELSE <<>>) \o DataRows(i + 1)

\* the hooks so far are those of one run: on_predict_start, then steps
OneRun ==
  /\ Len(log) >= 1
  /\ log[1].hook = "start"
  /\ \A i \in 2..Len(log) : log[i].hook = "step"

\* C5: on rank 0 the header row of a run is the constructor's header_row, it
\* is written once, and it precedes every data row of the run.
C5_HeaderOncePerRun ==
  (rank = 0 /\ OneRun) =>
    /\ file.writes[1] = FormatRow(header_row, delimiter)
    /\ Len(file.writes) = 1 + Len(DataRows(1))

\* a run on rank 0 that wrote the header and went on to write two data rows
C5_Witness ==
  /\ rank = 0
  /\ OneRun
  /\ Len(DataRows(1)) = 2
  /\ Len(file.writes) = 3

\* C6: the file holds, in call order, the rows of every step: a flat list
\* of strings as one row, a list of rows as each of its rows.
C6_RowsInCallOrder == file.writes = Written(1)

\* a flat step then a step of two rows: three data rows, a|b, a, b|a
C6_Witness ==
  /\ Len(log) = 2
  /\ log[1].out = <<StrItem("a"), StrItem("b")>>
  /\ log[2].out = <<ListItem(<<"a">>), ListItem(<<"b", "a">>)>>
  /\ delimiter = "\t"
  /\ file.writes = <<"a\tb\r\n", "a\r\n", "b\ta\r\n">>

OtherEntryPoints == EntryPoints \ {"PREDICT"}

\* C12: on_exception with an entry point other than PREDICT leaves the file
\* as it is, open or closed: nothing flushed, nothing closed, no row written,
\* and it does not raise.
C12_OtherEntryPointsLeaveFile ==
  [][(\E e \in OtherEntryPoints : call'.hook = "on_exception:" \o e) =>
       /\ file' = file
       /\ call'.exc = "None"]_vars

\* on_exception of a training run came on an open file that holds a row
C12_Witness ==
  /\ call.hook = "on_exception:TRAIN"
  /\ ~file.closed
  /\ file.flushes = 0
  /\ Len(file.writes) = 1

\* the step hook returned and its extraction result was out
StepReturned(out) ==
  /\ call'.hook = "on_predict_step_end"
  /\ Len(log') = Len(log) + 1
  /\ log'[Len(log')].out = out

\* C13: an on_predict_step_end whose extraction result is empty writes no
\* row and leaves the file as it is.
C13_EmptyResultWritesNothing ==
  [][StepReturned(<<>>) => file' = file]_vars

\* a step with an empty result came after a step that wrote a row
C13_Witness ==
  /\ call.hook = "on_predict_step_end"
  /\ call.exc = "None"
  /\ Len(log) = 2
  /\ log[1].hook = "step"
  /\ log[2] = [hook |-> "step", out |-> <<>>]
  /\ Len(file.writes) = 1

\* C14: on every rank, 0 or not, an on_predict_step_end with a result that
\* is not empty appends that step's data rows to the file.
C14_DataRowsOnEveryRank ==
  [][\A out \in BatchOutputs \ {<<>>} :
       StepReturned(out) => file'.writes = file.writes \o Lines(StepRows(out))]_vars

\* off rank 0, after on_predict_start wrote no header, a step wrote its two rows
C14_Witness ==
  /\ rank # 0
  /\ call.hook = "on_predict_step_end"
  /\ Len(log) = 2
  /\ log[1].hook = "start"
  /\ log[2].out = <<ListItem(<<"a">>), ListItem(<<"b", "a">>)>>
  /\ file.writes = Lines(<<<<"a">>, <<"b", "a">>>>)

(***************************************************************************)
(* Properties of the progress reporter and of both callbacks               *)
(***************************************************************************)
\* C4: on a process whose rank is not 0, whatever hooks are called, the
\* writer's file holds the data rows and no header row, and the reporter's
\* three bar slots stay empty.
C4_NothingOffRankZero ==
  rank # 0 =>
    /\ file.writes = Lines(DataRows(1))
    /\ \A p \in Phases : bars[p] = NoBar

\* rank 1: on_predict_start was called, a data row written, and an epoch of a
\* phase started and stepped with its state present
C4_Witness ==
  /\ rank # 0
  /\ Len(log) = 2
  /\ log[1].hook = "start"
  /\ Len(file.writes) = 1
  /\ protocol.ok
  /\ protocol.open["predict"]
  /\ call.hook = "step_end"

\* the estimate as stated: a cap is set when it is not None
StatedEstimate(dataloader, nsc, max_steps, max_steps_per_epoch) ==
  LET len == IF dataloader.sized THEN Fin(dataloader.len) ELSE Inf
  IN  IF max_steps.some /\ max_steps_per_epoch.some
      THEN MinOf(MinOf(len, max_steps_per_epoch.v), max_steps.v - nsc)
      ELSE IF max_steps.some THEN MinOf(len, max_steps.v - nsc)
      ELSE IF max_steps_per_epoch.some THEN MinOf(len, max_steps_per_epoch.v)
      ELSE len

\* C7: the estimated total is the minimum of the known length (if any), the
\* per-epoch cap (if set) and the global cap minus the steps completed (if
\* set), for caps that are None or any integer >= 0.
C7_EstimateIsMinOfSetCaps ==
  est.done =>
    est.total = StatedEstimate(est.dataloader, est.nsc, est.max_steps, est.max_steps_per_epoch)

\* C15: for a dataloader of known length and num_steps_completed <= max_steps,
\* the estimated total is never negative, is <= max_steps_per_epoch whenever
\* that cap is given, and is <= max_steps - num_steps_completed whenever that
\* cap is given, a cap of 0 included.
C15_EstimateWithinCaps ==
  (/\ est.done
   /\ est.dataloader.sized
   /\ est.max_steps.some => est.nsc <= est.max_steps.v) =>
    /\ ~est.total.inf
    /\ est.total.v >= 0
    /\ est.max_steps_per_epoch.some => est.total.v <= est.max_steps_per_epoch.v
    /\ est.max_steps.some => est.total.v <= est.max_steps.v - est.nsc

Live(bar) == bar.exists /\ ~bar.disable

\* C8: on rank 0, with the hooks of each phase in the loop's order, a phase
\* has a live bar exactly while its epoch is open: epoch_start creates it,
\* the matching epoch_end closes it, and no bar is left behind unclosed.
C8_BarLiveExactlyInEpoch ==
  (rank = 0 /\ protocol.ok) =>
    \A p \in Phases :
      /\ protocol.open[p] <=> Live(bars[p])
      /\ ~dropped[p]

ReporterHooks == {"epoch_start", "step_end", "epoch_end"}

\* C9: no hook of the reporter raises, and a step_end or epoch_end of a phase
\* that has no bar changes nothing.
C9_NoHookRaises ==
  [][call'.hook \in ReporterHooks =>
       /\ call'.exc = "None"
       /\ (call'.hook # "epoch_start" /\ ~bars[call'.phase].exists) => bars' = bars]_vars

\* C10: on rank 0, a step_end of a phase whose bar is live advances the bar
\* by refresh_rate when (num_steps_completed + 1) % refresh_rate = 0 and
\* leaves its position alone otherwise.
C10_StepEndAdvance ==
  [][(rank = 0 /\ call'.hook = "step_end" /\ protocol'.ok /\ Live(bars[call'.phase])) =>
       bars'[call'.phase].n =
         bars[call'.phase].n
           + (IF (num_steps_completed[call'.phase] + 1) % refresh_rate = 0
              THEN refresh_rate ELSE 0)]_vars

\* C17: a hook of one phase leaves the bars of the other two phases as they
\* are (existence, position, open or closed), so an evaluation epoch inside
\* a training epoch does not disturb the training bar.
C17_PhasesIndependent ==
  [][call'.hook \in ReporterHooks =>
       \A q \in Phases \ {call'.phase} : bars'[q] = bars[q]]_vars

\* rank 0: an evaluation epoch ended, its bar closed, inside a training epoch
\* whose bar is live and has advanced
C17_Witness ==
  /\ rank = 0
  /\ protocol.ok
  /\ call.hook = "epoch_end"
  /\ call.phase = "eval"
  /\ bars["eval"].exists
  /\ bars["eval"].disable
  /\ protocol.open["train"]
  /\ Live(bars["train"])
  /\ bars["train"].n > 0

(***************************************************************************)
(* Properties of the reporter driven by the loop                           *)
(***************************************************************************)
\* C11: on rank 0, for every epoch of a phase, the first and later ones, once
\* epoch_end has advanced the bar by num_steps_completed % refresh_rate and
\* closed it, the bar's position equals the number of steps executed in that
\* epoch.
C11_EpochAdvanceIsStepsInEpoch ==
  (rank = 0 /\ call.hook = "epoch_end" /\ bars[call.phase].exists
     /\ bars[call.phase].disable) =>
    bars[call.phase].n = StepsInEpoch(call.phase)

\* C16: on rank 0, with the hooks in the loop's order and an epoch of no more
\* steps than its estimate, a bar made with a finite total never stands
\* beyond that total, for every refresh rate.
C16_AdvanceWithinTotal ==
  rank = 0 =>
    \A p \in Phases :
      (bars[p].exists /\ bars[p].total.some) => bars[p].n <= bars[p].total.v

====
